---- MODULE Spec2Model ----
(***************************************************************************)
(* Country CO2 Emissions Analyzer (src/app.py): resource loading with the  *)
(* model-rebuild fallback (load_resources, rebuild_model) and the metrics  *)
(* computed by one run of main (series, current emissions, comparison,     *)
(* reduction targets).                                                     *)
(*                                                                         *)
(* Spec   : one process; every step is one run of main (a Streamlit rerun).*)
(* SpecFn : the helper functions applied to arbitrary arguments.           *)
(* SpecLifetime : several starts of the server over the same directory,    *)
(*          with files arriving while a process runs.                      *)
(***************************************************************************)
EXTENDS Integers, Sequences, FiniteSets, TLC

\* ------------------------------------------------------------- bounds ---
MaxRows == 2        \* rows in country_emissions.csv
MaxRuns == 2        \* runs of main in one process
MaxV    == 12       \* largest argument tried for get_reduction_targets
MaxRequest == 2     \* countries in one comparison request (SpecFn)
MaxProcesses == 2   \* starts of the server (SpecLifetime)
MaxRowsLifetime == 1 \* rows in country_emissions.csv in SpecLifetime

\* ------------------------------------------------------------ universe ---
None == "None"

\* Country names in lexicographic order (the order sorted() uses).
CountryOrder == <<"A", "B", "Z">>

\* Countries that occur in the file; "Z" never has a record.
DataCountries == {"A", "B"}

AllCountries == {CountryOrder[i] : i \in 1..Len(CountryOrder)}

DataYears == {2019, 2020}

\* Positions of the "Analysis Year" slider (1990..2030) that are tried.
SliderYears == {2019, 2020, 2025}

DataValues == {100, 300}

\* Values a working model may return from predict.
PredValues == {200}

RequiredCols == {"Country", "Year", "Per_Capita_CO2_kg"}

\* A row of the file.  A column the file lacks holds a placeholder that no
\* operation reads: every access is guarded by the frame's cols.
RowsOver(cols) ==
    [Country : IF "Country" \in cols THEN DataCountries ELSE {""},
     Year : IF "Year" \in cols THEN DataYears ELSE {0},
     Per_Capita_CO2_kg : IF "Per_Capita_CO2_kg" \in cols THEN DataValues ELSE {0}]

SeqsUpTo(S, n) == UNION {[1..k -> S] : k \in 0..n}

\* A DataFrame: its columns and its rows in index order.  present = FALSE is
\* Python's None.
Frame(cols, rows) == [present |-> TRUE, cols |-> cols, rows |-> rows]

NoFrame == [present |-> FALSE, cols |-> {}, rows |-> <<>>]

\* pd.DataFrame(): no columns, no rows.
EmptyFrame == Frame({}, <<>>)

ColumnSets == {RequiredCols} \cup {RequiredCols \ {c} : c \in RequiredCols}

AllFrames == UNION {{Frame(cols, rows) : rows \in SeqsUpTo(RowsOver(cols), MaxRows)} : cols \in ColumnSets}

\* The file country_emissions.csv on disk.
CsvFiles ==
    {[exists |-> FALSE, parses |-> FALSE, frame |-> NoFrame],
     [exists |-> TRUE, parses |-> FALSE, frame |-> NoFrame]}
    \cup {[exists |-> TRUE, parses |-> TRUE, frame |-> f] : f \in AllFrames}

\* ------------------------------------------------------ float numbers ---
\* A Python float x, on one of two grids:
\*   sub = TRUE  : x = m * 2^-1074, a subnormal double; the doubles there are
\*                 exactly the whole multiples of 2^-1074;
\*   sub = FALSE : x = m / 10 kg, a double of ordinary magnitude, where the
\*                 spacing of doubles (2^-52 relative) is far below 1/10.
Kg(n) == [m |-> 10 * n, sub |-> FALSE]

Sub(k) == [m |-> k, sub |-> TRUE]

\* x * (t/10) for the literals 0.5, 0.3, 0.1 (t = 5, 3, 1), rounded to the
\* nearest double, ties to even.  The doubles written 0.3 and 0.1 are
\* 0x3FD3333333333333 < 3/10 and 0x3FB999999999999A > 1/10, which decides
\* the products that are a decimal tie; 0.5 is exact.
FMul(x, t) ==
    LET q == (x.m * t) \div 10
        r == (x.m * t) % 10
        up == \/ r > 5
              \/ r = 5 /\ t = 1
              \/ r = 5 /\ t = 5 /\ q % 2 = 1
    IN  [m |-> IF up THEN q + 1 ELSE q, sub |-> x.sub]

\* FALLBACK: calculate_emissions' return value when predict raises.
FALLBACK == 5000

\* ---------------------------------------------------- helper functions ---
Range(s) == {s[i] : i \in 1..Len(s)}

RECURSIVE SumValues(_)
SumValues(rows) ==
    IF rows = <<>> THEN 0 ELSE Head(rows).Per_Capita_CO2_kg + SumValues(Tail(rows))

MaxOf(S) == CHOOSE x \in S : \A y \in S : y <= x

\* rows[rows[col] == x].values[0]: the first row, in frame order, that passes.
FirstRow(rows, passing) == rows[CHOOSE i \in 1..Len(rows) : rows[i] \in passing /\ \A j \in 1..(i - 1) : rows[j] \notin passing]

\* sorted(emissions_df['Country'].unique())
SortedCountries(rows) ==
    LET present == {r.Country : r \in Range(rows)}
        IsPresent(c) == c \in present
    IN  SelectSeq(CountryOrder, IsPresent)

\* The orders sort_values('Year') may leave the rows in.  Its default kind is
\* quicksort, which is not stable: rows of equal Year come out in an order
\* the numpy build decides.
SortOutcomes(rows) ==
    LET n == Len(rows)
        byYear(s) == \A i \in 1..n, j \in 1..n : i < j => s[i].Year <= s[j].Year
    IN  {s \in {[i \in 1..n |-> rows[p[i]]] : p \in Permutations(1..n)} : byYear(s)}

\* ------------------------------------------------------ get_country_data ---
\* The frames get_country_data(df, country) may return.  It raises KeyError
\* when df has no Year column (get_country_data_raises).
get_country_data_raises(df) == df.present /\ "Year" \notin df.cols

\* get_country_data without sort_values: the rows stay in file order.
get_country_data_unsorted(df, country) ==
    LET IsCountry(r) == r.Country = country
    IN  IF ~df.present THEN {EmptyFrame}
        ELSE {Frame(df.cols, SelectSeq(df.rows, IsCountry))}

get_country_data(df, country) ==
    LET IsCountry(r) == r.Country = country
    IN  IF ~df.present THEN {EmptyFrame}
        ELSE {Frame(df.cols, s) : s \in SortOutcomes(SelectSeq(df.rows, IsCountry))}

\* country_data.empty
IsEmpty(frame) == frame.rows = <<>>

\* ------------------------------------------------- get_reduction_targets ---
\* get_reduction_targets with the 2040 factor a copy of the 2030 one.
get_reduction_targets_pasted(current_emissions) ==
    [t2030 |-> FMul(current_emissions, 5),
     t2040 |-> FMul(current_emissions, 5),
     t2050 |-> FMul(current_emissions, 1)]

get_reduction_targets(current_emissions) ==
    [t2030 |-> FMul(current_emissions, 5),
     t2040 |-> FMul(current_emissions, 3),
     t2050 |-> FMul(current_emissions, 1)]

\* --------------------------------------------------- calculate_emissions ---
\* model.predict either raises (predRaises) or returns predVal; any
\* exception is caught and replaced by the fallback.
\* calculate_emissions with 0.0 in the place of the fallback 5000.0.
calculate_emissions_zero(model, predRaises, predVal) ==
    IF predRaises THEN Kg(0) ELSE Kg(predVal)

calculate_emissions(model, predRaises, predVal) ==
    IF predRaises THEN Kg(FALLBACK) ELSE Kg(predVal)

\* ------------------------------------------------------ get_climate_tips ---
\* The first tip: current_emissions > avg_emissions * 1.2, with
\* avg_emissions = avg.sum / avg.n and current_emissions in tenths.
get_climate_tips(current_emissions, avg) ==
    IF current_emissions.m * avg.n > avg.sum * 12 THEN "reduce" ELSE "maintain"

\* ---------------------------------------------------- comparison section ---
\* ComparisonEntry from the first row of the series, not its latest year.
ComparisonEntry_first_row(country, country_emissions) ==
    [Country |-> country,
     Latest_Year |-> country_emissions.rows[1].Year,
     Per_Capita_CO2 |-> country_emissions.rows[1].Per_Capita_CO2_kg]

\* One entry of comparison_data, from one sorted country_emissions frame.
ComparisonEntry(country, country_emissions) ==
    LET latest_year == MaxOf({r.Year : r \in Range(country_emissions.rows)})
        IsLatest == {r \in Range(country_emissions.rows) : r.Year = latest_year}
    IN  [Country |-> country,
         Latest_Year |-> latest_year,
         Per_Capita_CO2 |-> FirstRow(country_emissions.rows, IsLatest).Per_Capita_CO2_kg]

ComparisonEntries(df, country) ==
    {ComparisonEntry(country, ce) : ce \in {f \in get_country_data(df, country) : ~IsEmpty(f)}}

\* The lists the loop over the requested countries may build.
RECURSIVE ComparisonOutcomes(_, _)
ComparisonOutcomes(df, requested) ==
    IF requested = <<>> THEN {<<>>}
    ELSE LET entries == ComparisonEntries(df, Head(requested))
             rest == ComparisonOutcomes(df, Tail(requested))
         IN  IF entries = {} THEN rest
             ELSE {<<e>> \o r : e \in entries, r \in rest}

\* ---------------------------------------------------------------- state ---
VARIABLES
    csv,          \* the file country_emissions.csv
    pkl,          \* the file country_emissions_model.pkl
    fixed_pkl,    \* the file country_emissions_model_fixed.pkl
    cache,        \* st.cache_resource's entry for load_resources
    resolution,   \* what the one execution of load_resources' body did
    calls,        \* how often each expensive operation ran in this process
    runs,         \* runs of main so far
    pc,           \* "loaded" between line 170 and the end of a run, else "idle"
    view,         \* the locals of the latest run of main, and how it ended
    process       \* which start of the server this is: 1, 2, ...

vars == <<csv, pkl, fixed_pkl, cache, resolution, calls, runs, pc, view, process>>

NoTargets == get_reduction_targets(Kg(0))

BlankView ==
    [status |-> "not_run", op |-> "none",
     selected_country |-> None, analysis_year |-> 0,
     country_data |-> NoFrame, computed |-> {},
     current_emissions |-> Kg(0), predict_called |-> FALSE, predict_raised |-> FALSE,
     global_avg |-> [sum |-> 0, n |-> 0], peak |-> [value |-> 0, year |-> 0],
     compare_countries |-> <<>>, requested |-> <<>>, comparison_data |-> <<>>,
     targets |-> NoTargets, tip |-> None, downloaded |-> FALSE]

NoResolution ==
    [ran |-> FALSE, dataset_loaded |-> FALSE, load_raised |-> FALSE, smoke_raised |-> FALSE,
     rebuild_arg |-> NoFrame, fit |-> "none", dump |-> "none", returned |-> None,
     trail |-> <<>>]

NoCalls == [read_csv |-> 0, joblib_load |-> 0, smoke_test |-> 0, rebuild_model |-> 0, joblib_dump |-> 0, csv_reads |-> 0]

EmptyCache == [filled |-> FALSE, model |-> None, emissions_df |-> NoFrame, country_list |-> <<>>]

\* --------------------------------------------------------- rebuild_model ---
\* fitOk: model.fit succeeds on a usable frame; dumpOk: joblib.dump succeeds.
\* Selecting the columns, the fit and the dump are inside one try whose
\* handler returns None.
rebuild_model(emissions_df, fitOk, dumpOk) ==
    LET fitted == RequiredCols \subseteq emissions_df.cols /\ emissions_df.rows # <<>> /\ fitOk
    IN  [model |-> IF fitted /\ dumpOk THEN "rebuilt" ELSE None,
         fit |-> IF fitted THEN "ok" ELSE "failed",
         dump |-> IF ~fitted THEN "none" ELSE IF dumpOk THEN "ok" ELSE "failed"]

\* -------------------------------------------------------- load_resources ---
\* joblib.load("country_emissions_model.pkl") raises when there is no file.
joblib_load_raises(artifact) == artifact = "absent"

\* load_resources without the smoke test: any loaded artifact is trusted.
smoke_test_skipped(artifact) == FALSE

\* model.predict(test_data) on the loaded artifact raises when the pipeline
\* is not one this sklearn can run.
smoke_test_raises(artifact) == artifact = "incompatible"

\* load_resources going on to the model whatever became of the dataset.
read_csv_fails_ignored(file) == FALSE

\* Lines 71-72 raise: FileNotFoundError, a parser error, or KeyError for a
\* file without a Country column.
read_csv_fails(file) == ~file.exists \/ ~file.parses \/ "Country" \notin file.frame.cols

\* The body of load_resources: what it returns (result), what it did
\* (trace, with the order of its steps in trail), and the calls it made.
load_resources(fitOk, dumpOk) ==
    LET emissions_df == csv.frame
        failed == [filled |-> TRUE, model |-> None, emissions_df |-> NoFrame, country_list |-> <<>>]
        none == [NoCalls EXCEPT !.read_csv = 1, !.csv_reads = 1]
    IN  IF read_csv_fails(csv)
        THEN [result |-> failed,
              trace |-> [NoResolution EXCEPT !.ran = TRUE, !.trail = <<"read_csv">>],
              made |-> none]
        ELSE LET country_list == SortedCountries(emissions_df.rows)
                 load_raised == joblib_load_raises(pkl)
                 smoke_raised == ~load_raised /\ smoke_test_raises(pkl)
                 rebuilt == rebuild_model(emissions_df, fitOk, dumpOk)
                 loaded == [none EXCEPT !.joblib_load = 1,
                                        !.smoke_test = IF load_raised THEN 0 ELSE 1]
             IN  IF load_raised \/ smoke_raised
                 THEN [result |-> [filled |-> TRUE, model |-> rebuilt.model,
                                   emissions_df |-> emissions_df, country_list |-> country_list],
                       trace |-> [ran |-> TRUE, dataset_loaded |-> TRUE,
                                  load_raised |-> load_raised, smoke_raised |-> smoke_raised,
                                  rebuild_arg |-> emissions_df, fit |-> rebuilt.fit, dump |-> rebuilt.dump,
                                  returned |-> rebuilt.model,
                                  trail |-> <<"read_csv", "dataset_loaded", "joblib_load">>
                                            \o (IF load_raised THEN <<>> ELSE <<"smoke_test">>)
                                            \o <<"rebuild_model">>
                                            \o (IF rebuilt.model = None THEN <<>> ELSE <<"model_resolved">>)],
                       made |-> [loaded EXCEPT !.rebuild_model = 1,
                                               !.joblib_dump = IF rebuilt.fit = "ok" THEN 1 ELSE 0]]
                 ELSE [result |-> [filled |-> TRUE, model |-> "loaded",
                                   emissions_df |-> emissions_df, country_list |-> country_list],
                       trace |-> [NoResolution EXCEPT
                                     !.ran = TRUE, !.dataset_loaded = TRUE,
                                     !.trail = <<"read_csv", "dataset_loaded", "joblib_load",
                                                 "smoke_test", "model_resolved">>],
                       made |-> loaded]

\* ------------------------------------------------------------------ main ---
\* The selections the widgets offer: the selectbox one entry of country_list
\* (None when the list is empty), the multiselect the chosen entries of
\* country_list in the order they were chosen.
SelectboxChoices(country_list) == IF country_list = <<>> THEN {None} ELSE Range(country_list)

MultiselectChoices(country_list) ==
    {s \in SeqsUpTo(Range(country_list), Len(country_list)) : \A i, j \in 1..Len(s) : i # j => s[i] # s[j]}

\* Lines 214-219 without the lookup: the model is asked for every year.
CurrentEmissions_model_first(v, model, predRaises, predVal) ==
    [v EXCEPT !.current_emissions = calculate_emissions(model, predRaises, predVal),
              !.predict_called = TRUE,
              !.predict_raised = predRaises,
              !.computed = @ \cup {"current"}]

\* Lines 214-219: the stored value if the year is in the series, else the
\* model's prediction.
CurrentEmissions(v, model, predRaises, predVal) ==
    LET IsYear == {r \in Range(v.country_data.rows) : r.Year = v.analysis_year}
    IN  IF v.analysis_year \in {r.Year : r \in Range(v.country_data.rows)}
        THEN [v EXCEPT !.current_emissions = Kg(FirstRow(v.country_data.rows, IsYear).Per_Capita_CO2_kg),
                       !.computed = @ \cup {"current"}]
        ELSE [v EXCEPT !.current_emissions = calculate_emissions(model, predRaises, predVal),
                       !.predict_called = TRUE,
                       !.predict_raised = predRaises,
                       !.computed = @ \cup {"current"}]

\* Lines 222-233 reporting the year of the latest record beside the maximum.
Metrics_latest_year(v, emissions_df) ==
    LET rows == v.country_data.rows
        top == MaxOf({r.Per_Capita_CO2_kg : r \in Range(rows)})
    IN  [v EXCEPT !.global_avg = [sum |-> SumValues(emissions_df.rows), n |-> Len(emissions_df.rows)],
                  !.peak = [value |-> top, year |-> rows[Len(rows)].Year],
                  !.computed = @ \cup {"avg", "peak"}]

\* Lines 222-233: the global average and the historical peak.
Metrics(v, emissions_df) ==
    LET rows == v.country_data.rows
        top == MaxOf({r.Per_Capita_CO2_kg : r \in Range(rows)})
        IsTop == {r \in Range(rows) : r.Per_Capita_CO2_kg = top}
    IN  [v EXCEPT !.global_avg = [sum |-> SumValues(emissions_df.rows), n |-> Len(emissions_df.rows)],
                  !.peak = [value |-> top, year |-> FirstRow(rows, IsTop).Year],
                  !.computed = @ \cup {"avg", "peak"}]

\* Lines 287-300, then 329-357: comparison, reduction targets, tips.
Sections(v, compare_countries, comparison_data) ==
    LET w == IF compare_countries = <<>> THEN v
             ELSE [v EXCEPT !.requested = <<v.selected_country>> \o compare_countries,
                            !.comparison_data = comparison_data,
                            !.computed = @ \cup {"comparison"}]
    IN  [w EXCEPT !.compare_countries = compare_countries,
                  !.targets = get_reduction_targets(w.current_emissions),
                  !.tip = get_climate_tips(w.current_emissions, w.global_avg),
                  !.computed = @ \cup {"targets", "tips"}]

\* Lines 372-382: the download button reads the file again.
Download(v) == [v EXCEPT !.status = "rendered", !.downloaded = csv.exists]

\* main after line 170, with resources (model, emissions_df, country_list).
\* country_data and comparison_data are the outcomes of the two sorts.
Render(res, selected_country, analysis_year, compare_countries, predRaises, predVal, country_data, comparison_data) ==
    LET v0 == [BlankView EXCEPT !.op = "main",
                                !.selected_country = selected_country,
                                !.analysis_year = analysis_year]
        v1 == [v0 EXCEPT !.country_data = country_data, !.computed = {"series"}]
        hasValue == "Per_Capita_CO2_kg" \in res.emissions_df.cols
        exact == analysis_year \in {r.Year : r \in Range(country_data.rows)}
        v2 == CurrentEmissions(v1, res.model, predRaises, predVal)
    IN  IF get_country_data_raises(res.emissions_df)
        THEN [v0 EXCEPT !.status = "crashed"]                    \* KeyError, line 134
        ELSE IF IsEmpty(country_data) THEN Download(v1)
        ELSE IF ~hasValue /\ exact
        THEN [v1 EXCEPT !.status = "crashed"]                    \* KeyError, line 217
        ELSE IF ~hasValue
        THEN [v2 EXCEPT !.status = "crashed"]                    \* KeyError, line 222
        ELSE Download(Sections(Metrics(v2, res.emissions_df), compare_countries, comparison_data))

\* Line 166 testing the dataset, not the model.
ModelMissing_or_no_data(resources) == ~resources.emissions_df.present

\* Line 166: resources[0] is None.
ModelMissing(resources) == resources.model = None

\* A cache that keeps only the results that carry a model.
cache_hit_only_with_model(entry) == entry.filled /\ entry.model # None

\* Line 67, st.cache_resource: a call finds the entry of an earlier call
\* whatever value that call returned, the tuple (None, None, []) included.
cache_hit(entry) == entry.filled

\* Lines 162-170: main calls load_resources and returns when it got no
\* model.  load_resources is wrapped in st.cache_resource: its body runs
\* when the cache has no entry, and its return value becomes the entry.
\* Every run starts with fresh locals.
Stopped == [BlankView EXCEPT !.op = "main", !.status = "stopped"]

Running == [BlankView EXCEPT !.op = "main", !.status = "running"]

\* main_load with load_resources undecorated: its body runs in every run.
main_load_uncached(fitOk, dumpOk) ==
    LET body == load_resources(fitOk, dumpOk)
    IN  /\ pc = "idle"
        /\ runs < MaxRuns
        /\ runs' = runs + 1
        /\ cache' = [body.result EXCEPT !.filled = FALSE]
        /\ resolution' = body.trace
        /\ fixed_pkl' = IF body.trace.dump = "ok" THEN "valid" ELSE fixed_pkl
        /\ calls' = [c \in DOMAIN calls |-> calls[c] + body.made[c]]
        /\ view' = IF ModelMissing(body.result) THEN Stopped ELSE Running
        /\ pc' = IF ModelMissing(body.result) THEN "idle" ELSE "loaded"
        /\ UNCHANGED <<csv, pkl, process>>

main_load(fitOk, dumpOk) ==
    LET hit == cache_hit(cache)
        body == load_resources(fitOk, dumpOk)
        resources == IF hit THEN cache ELSE body.result
    IN  /\ pc = "idle"
        /\ runs < MaxRuns
        /\ runs' = runs + 1
        /\ cache' = resources
        /\ resolution' = IF hit THEN resolution ELSE body.trace
        /\ fixed_pkl' = IF ~hit /\ body.trace.dump = "ok" THEN "valid" ELSE fixed_pkl
        /\ calls' = [c \in DOMAIN calls |-> calls[c] + (IF hit THEN 0 ELSE body.made[c])]
        /\ view' = IF ModelMissing(resources) THEN Stopped ELSE Running
        /\ pc' = IF ModelMissing(resources) THEN "idle" ELSE "loaded"
        /\ UNCHANGED <<csv, pkl, process>>

\* Line 134 sorting the frame it was given in place: the cached frame takes
\* the rows of the series.
shared_frame_sorted_in_place(df, country_data) == [df EXCEPT !.rows = country_data.rows]

\* What lines 134 and 289-293 leave of the frame held in the cache: boolean
\* indexing and sort_values (inplace=False) build new frames, and no line of
\* main assigns to emissions_df or to one of its columns.
shared_frame(df, country_data) == df

\* Lines 170-400: the rest of the run, with the widgets' selections.
main_render(selected_country, analysis_year, compare_countries, predRaises, predVal) ==
    LET resources == cache
        series == IF get_country_data_raises(resources.emissions_df) THEN {EmptyFrame}
                  ELSE get_country_data(resources.emissions_df, selected_country)
        requested == <<selected_country>> \o compare_countries
        snapshots == IF ~(RequiredCols \subseteq resources.emissions_df.cols) \/ compare_countries = <<>>
                     THEN {<<>>}
                     ELSE ComparisonOutcomes(resources.emissions_df, requested)
    IN  /\ pc = "loaded"
        /\ pc' = "idle"
        /\ selected_country \in SelectboxChoices(resources.country_list)
        /\ analysis_year \in SliderYears
        /\ compare_countries \in MultiselectChoices(resources.country_list)
        /\ \E country_data \in series, comparison_data \in snapshots :
              /\ view' = Render(resources, selected_country, analysis_year, compare_countries,
                                predRaises, predVal, country_data, comparison_data)
              /\ cache' = [cache EXCEPT !.emissions_df = shared_frame(@, country_data)]
        /\ calls' = [calls EXCEPT !.csv_reads = @ + (IF view'.downloaded THEN 1 ELSE 0)]
        /\ UNCHANGED <<csv, pkl, fixed_pkl, resolution, runs, process>>

Init ==
    /\ csv \in CsvFiles
    /\ pkl \in {"absent", "incompatible", "valid"}
    /\ fixed_pkl = "absent"
    /\ cache = EmptyCache
    /\ resolution = NoResolution
    /\ calls = NoCalls
    /\ runs = 0
    /\ pc = "idle"
    /\ view = BlankView
    /\ process = 1

Next ==
    \/ \E fitOk, dumpOk \in BOOLEAN : main_load(fitOk, dumpOk)
    \/ \E selected_country \in AllCountries \cup {None}, analysis_year \in SliderYears,
          compare_countries \in SeqsUpTo(DataCountries, Cardinality(DataCountries)),
          predRaises \in BOOLEAN, predVal \in PredValues :
          main_render(selected_country, analysis_year, compare_countries, predRaises, predVal)

Spec == Init /\ [][Next]_vars

\* ========================================================== SpecLifetime ===
\* The working directory outlives the process; the cache, the locals and the
\* widget state do not.  Files that load_resources did not find may be put in
\* place while a process is running.
LifetimeCsvFiles ==
    {[exists |-> FALSE, parses |-> FALSE, frame |-> NoFrame]}
    \cup {[exists |-> TRUE, parses |-> TRUE, frame |-> Frame(RequiredCols, rows)] :
             rows \in SeqsUpTo(RowsOver(RequiredCols), MaxRowsLifetime)}

InitLifetime ==
    /\ csv \in LifetimeCsvFiles
    /\ pkl \in {"absent", "incompatible", "valid"}
    /\ fixed_pkl = "absent"
    /\ cache = EmptyCache
    /\ resolution = NoResolution
    /\ calls = NoCalls
    /\ runs = 0
    /\ pc = "idle"
    /\ view = BlankView
    /\ process = 1

\* The server is stopped and started again (streamlit run app.py): the
\* module is executed from its first line with an empty st.cache_resource,
\* over the files the earlier processes left.
restart ==
    /\ process < MaxProcesses
    /\ process' = process + 1
    /\ cache' = EmptyCache
    /\ resolution' = NoResolution
    /\ calls' = NoCalls
    /\ runs' = 0
    /\ pc' = "idle"
    /\ view' = BlankView
    /\ UNCHANGED <<csv, pkl, fixed_pkl>>

\* A readable country_emissions.csv is put where line 71 looks for it.
provide_csv(file) ==
    /\ read_csv_fails(csv)
    /\ ~read_csv_fails(file)
    /\ csv' = file
    /\ UNCHANGED <<pkl, fixed_pkl, cache, resolution, calls, runs, pc, view, process>>

\* A working country_emissions_model.pkl is put where line 76 looks for it.
provide_pkl ==
    /\ pkl # "valid"
    /\ pkl' = "valid"
    /\ UNCHANGED <<csv, fixed_pkl, cache, resolution, calls, runs, pc, view, process>>

NextLifetime ==
    \/ \E fitOk, dumpOk \in BOOLEAN : main_load(fitOk, dumpOk)
    \/ \E selected_country \in AllCountries \cup {None}, analysis_year \in SliderYears,
          compare_countries \in SeqsUpTo(DataCountries, Cardinality(DataCountries)),
          predRaises \in BOOLEAN, predVal \in PredValues :
          main_render(selected_country, analysis_year, compare_countries, predRaises, predVal)
    \/ restart
    \/ \E file \in LifetimeCsvFiles : provide_csv(file)
    \/ provide_pkl

SpecLifetime == InitLifetime /\ [][NextLifetime]_vars

\* ================================================================ SpecFn ===
\* The helper functions on arguments of any kind: a frame or None (held in
\* cache.emissions_df), any country, any request, any float.
FnFrames == {NoFrame} \cup {Frame(RequiredCols, rows) : rows \in SeqsUpTo(RowsOver(RequiredCols), MaxRows)}

FnFloats ==
    {Kg(k) : k \in 0..MaxV} \cup {Sub(k) : k \in 0..MaxV}
    \cup {Kg(k) : k \in DataValues \cup PredValues \cup {FALLBACK}}

InitFn ==
    /\ csv = [exists |-> FALSE, parses |-> FALSE, frame |-> NoFrame]
    /\ pkl = "absent"
    /\ fixed_pkl = "absent"
    /\ cache \in {[EmptyCache EXCEPT !.emissions_df = f] : f \in FnFrames}
    /\ resolution = NoResolution
    /\ calls = NoCalls
    /\ runs = 0
    /\ pc = "fn"
    /\ view = BlankView
    /\ process = 1

apply_get_country_data(country) ==
    /\ pc = "fn"
    /\ \E country_data \in get_country_data(cache.emissions_df, country) :
          view' = [BlankView EXCEPT !.op = "get_country_data",
                                    !.selected_country = country,
                                    !.country_data = country_data]
    /\ UNCHANGED <<csv, pkl, fixed_pkl, cache, resolution, calls, runs, pc, process>>

apply_comparison(requested) ==
    /\ pc = "fn"
    /\ \E comparison_data \in ComparisonOutcomes(cache.emissions_df, requested) :
          view' = [BlankView EXCEPT !.op = "comparison",
                                    !.requested = requested,
                                    !.comparison_data = comparison_data]
    /\ UNCHANGED <<csv, pkl, fixed_pkl, cache, resolution, calls, runs, pc, process>>

apply_get_reduction_targets(current_emissions) ==
    /\ pc = "fn"
    /\ view' = [BlankView EXCEPT !.op = "get_reduction_targets",
                                 !.current_emissions = current_emissions,
                                 !.targets = get_reduction_targets(current_emissions)]
    /\ UNCHANGED <<csv, pkl, fixed_pkl, cache, resolution, calls, runs, pc, process>>

NextFn ==
    \/ \E country \in AllCountries : apply_get_country_data(country)
    \/ \E requested \in SeqsUpTo(AllCountries, MaxRequest) : apply_comparison(requested)
    \/ \E current_emissions \in FnFloats : apply_get_reduction_targets(current_emissions)

SpecFn == InitFn /\ [][NextFn]_vars

\* ================================================================ claims ===
\* The records of the cached dataset for the selection of the latest run.
SelectedRecords ==
    {r \in Range(cache.emissions_df.rows) :
        r.Country = view.selected_country /\ r.Year = view.analysis_year}

\* C1: when the dataset holds a record for the selected (country, year), the
\* current-emissions value of the run is that record's stored value and
\* predict is not called in the run, whatever predict would have done; predict
\* is called only when the dataset holds no such record.
C1_StoredValueTakesPrecedence ==
    /\ (view.op = "main" /\ view.status = "rendered" /\ SelectedRecords # {}) =>
          /\ "current" \in view.computed
          /\ ~view.predict_called
          /\ \E r \in SelectedRecords : view.current_emissions = Kg(r.Per_Capita_CO2_kg)
    /\ view.predict_called => SelectedRecords = {}

C1_Witness ==
    /\ view.op = "main" /\ view.status = "rendered"
    /\ cache.model = "loaded"
    /\ SelectedRecords # {}
    /\ view.current_emissions = Kg(300)
    /\ ~view.predict_called

\* C2: when predict raises for a selection without a stored record,
\* calculate_emissions returns 5000.0 and the run goes on with it: on a
\* dataset with the three columns the run renders, with the average, the
\* peak, the targets of 5000.0 and the tips computed.
C2_PredictFailureYieldsFallback ==
    (view.op = "main" /\ view.predict_called /\ view.predict_raised) =>
        /\ view.current_emissions = Kg(FALLBACK)
        /\ RequiredCols \subseteq cache.emissions_df.cols =>
              /\ view.status = "rendered"
              /\ {"avg", "peak", "targets", "tips"} \subseteq view.computed
              /\ view.targets = [t2030 |-> Kg(2500), t2040 |-> Kg(1500), t2050 |-> Kg(500)]

C2_Witness ==
    /\ view.op = "main" /\ view.status = "rendered"
    /\ view.predict_called /\ view.predict_raised
    /\ view.analysis_year = 2025
    /\ view.current_emissions = Kg(FALLBACK)

\* C3: the body of load_resources calls rebuild_model exactly when the
\* dataset was loaded and joblib.load or the smoke test raised; then once,
\* with the whole dataset, and what rebuild_model returns is the model of the
\* result.  With a valid artifact the loaded artifact is the model, nothing
\* is rebuilt and no model file is written.
C3_RebuildIffArtifactUnusable ==
    resolution.ran =>
        /\ resolution.load_raised <=> (resolution.dataset_loaded /\ pkl = "absent")
        /\ resolution.smoke_raised <=> (resolution.dataset_loaded /\ pkl = "incompatible")
        /\ calls.rebuild_model = (IF resolution.load_raised \/ resolution.smoke_raised THEN 1 ELSE 0)
        /\ calls.rebuild_model = 1 =>
              /\ resolution.rebuild_arg = csv.frame
              /\ cache.model = resolution.returned
              /\ cache.model \in {"rebuilt", None}
        /\ (resolution.dataset_loaded /\ pkl = "valid") =>
              /\ cache.model = "loaded"
              /\ calls.joblib_dump = 0
              /\ fixed_pkl = "absent"

C3_Witness ==
    /\ resolution.ran /\ resolution.smoke_raised
    /\ calls.rebuild_model = 1
    /\ Len(resolution.rebuild_arg.rows) = MaxRows
    /\ cache.model = "rebuilt"
    /\ fixed_pkl = "valid"

\* C4: when the fit succeeds and joblib.dump fails, rebuild_model returns the
\* fitted model all the same, it is the model of the result, and main does
\* not stop for want of a model.
C4_DumpFailureIsNotFatal ==
    (resolution.fit = "ok" /\ resolution.dump = "failed") =>
        /\ resolution.returned = "rebuilt"
        /\ cache.model = "rebuilt"
        /\ view.status # "stopped"

\* C5, as stated: with the dataset loaded and no model, a finished run has
\* rendered the dataset-only views (the series and the download).
C5_DatasetViewsWithoutModel ==
    (cache.filled /\ cache.emissions_df.present /\ cache.model = None /\ pc = "idle") =>
        /\ view.status = "rendered"
        /\ "series" \in view.computed
        /\ view.downloaded

\* C5, amended: with the dataset loaded and no model, load_resources returns
\* the dataset without a model, and every run of main stops at line 168
\* before any view, dataset-only or not, is computed.
C5_NoModelStopsMain ==
    (cache.filled /\ cache.emissions_df.present /\ cache.model = None) =>
        /\ cache.emissions_df = csv.frame
        /\ pc = "idle"
        /\ view.status = "stopped"
        /\ view.computed = {}
        /\ ~view.downloaded

C5_Witness ==
    /\ cache.filled /\ cache.emissions_df.present /\ cache.model = None
    /\ Len(cache.emissions_df.rows) = MaxRows
    /\ resolution.fit = "failed"
    /\ view.status = "stopped"
    /\ runs = MaxRuns

\* C6: a dataset file that is missing, malformed or lacks one of Country,
\* Year, Per_Capita_CO2_kg makes load_resources return no dataset and no
\* model, and main stops before it computes anything: no run renders or
\* ends in an uncaught error.
C6_BadDatasetIsFatalAtLoad ==
    (cache.filled /\ (~csv.exists \/ ~csv.parses \/ ~(RequiredCols \subseteq csv.frame.cols))) =>
        /\ cache.model = None
        /\ ~cache.emissions_df.present
        /\ view.status = "stopped"
        /\ view.computed = {}

LoadCalls == <<calls.read_csv, calls.joblib_load, calls.smoke_test, calls.rebuild_model>>

\* C7, as stated: in one process the dataset file is read from disk at most
\* once, and the artifact is loaded, smoke-tested and rebuilt at most once.
C7_FileReadOnce ==
    /\ calls.csv_reads <= 1
    /\ calls.read_csv <= 1 /\ calls.joblib_load <= 1
    /\ calls.smoke_test <= 1 /\ calls.rebuild_model <= 1

\* C7, amended: in one process pd.read_csv, joblib.load, the smoke test and
\* rebuild_model each run at most once, and once load_resources has returned,
\* every later step keeps the same cached dataset and model and repeats none
\* of them.  (The file itself is opened again by each run that reaches the
\* download button.)
C7_LoadedAndResolvedOnce ==
    [][/\ calls'.read_csv <= 1 /\ calls'.joblib_load <= 1
       /\ calls'.smoke_test <= 1 /\ calls'.rebuild_model <= 1
       /\ cache.filled => (cache' = cache /\ LoadCalls' = LoadCalls)]_vars

C7_Witness ==
    /\ runs = 2 /\ pc = "loaded"
    /\ cache.filled /\ cache.model = "rebuilt"
    /\ LoadCalls = <<1, 1, 1, 1>>
    /\ calls.csv_reads = 2

\* x < y for two floats on the same grid.
FLess(x, y) == x.m < y.m

\* C8, as stated: the targets are 0.5*v, 0.3*v and 0.1*v, and for every
\* v > 0 long-term < mid-term < near-term < v.
C8_TargetsStrictlyOrdered ==
    view.op = "get_reduction_targets" =>
        LET v == view.current_emissions
            t == view.targets
        IN  /\ 10 * t.t2030.m = 5 * v.m /\ 10 * t.t2040.m = 3 * v.m /\ 10 * t.t2050.m = v.m
            /\ v.m > 0 => (FLess(t.t2050, t.t2040) /\ FLess(t.t2040, t.t2030) /\ FLess(t.t2030, v))

\* The distance of 10 * got from want is at most half a grid step.
Nearest(got, want) == 10 * got - want <= 5 /\ want - 10 * got <= 5

\* C8, amended: the targets are the float products v*0.5, v*0.3 and v*0.1:
\* each the double nearest to the exact product, and the exact product
\* where the grid has it; for every v > 0, long-term <= mid-term <= near-term
\* < v, with long-term < mid-term < near-term for every v that is not below
\* 6 * 2^-1074; and 100.0 gives 50.0, 30.0, 10.0.
C8_TargetsOrdered ==
    view.op = "get_reduction_targets" =>
        LET v == view.current_emissions
            t == view.targets
        IN  /\ Nearest(t.t2030.m, 5 * v.m) /\ Nearest(t.t2040.m, 3 * v.m) /\ Nearest(t.t2050.m, v.m)
            /\ ~v.sub => (10 * t.t2030.m = 5 * v.m /\ 10 * t.t2040.m = 3 * v.m /\ 10 * t.t2050.m = v.m)
            /\ v.m > 0 => (t.t2050.m <= t.t2040.m /\ t.t2040.m <= t.t2030.m /\ FLess(t.t2030, v))
            /\ (v.m > 0 /\ (~v.sub \/ v.m >= 6)) => (FLess(t.t2050, t.t2040) /\ FLess(t.t2040, t.t2030))
            /\ v = Kg(100) => t = [t2030 |-> Kg(50), t2040 |-> Kg(30), t2050 |-> Kg(10)]

C8_Witness ==
    /\ view.op = "get_reduction_targets"
    /\ view.current_emissions = Kg(100)
    /\ view.targets = [t2030 |-> Kg(50), t2040 |-> Kg(30), t2050 |-> Kg(10)]

\* C9: the comparison list has, in the order of the request, one entry for
\* each requested country that has a record, with the country's latest year
\* in the dataset and a value recorded for that country and year; a
\* requested country without records adds no entry.
C9_ComparisonSnapshot ==
    view.op = "comparison" =>
        LET rows == Range(cache.emissions_df.rows)
            HasRecords(c) == \E r \in rows : r.Country = c
            expected == SelectSeq(view.requested, HasRecords)
            got == view.comparison_data
        IN  /\ Len(got) = Len(expected)
            /\ \A i \in 1..Len(got) :
                  /\ got[i].Country = expected[i]
                  /\ got[i].Latest_Year = MaxOf({r.Year : r \in {x \in rows : x.Country = expected[i]}})
                  /\ \E r \in rows : /\ r.Country = expected[i]
                                     /\ r.Year = got[i].Latest_Year
                                     /\ r.Per_Capita_CO2_kg = got[i].Per_Capita_CO2

C9_Witness ==
    /\ view.op = "comparison"
    /\ view.requested = <<"A", "Z">>
    /\ cache.emissions_df.rows = <<[Country |-> "A", Year |-> 2020, Per_Capita_CO2_kg |-> 300],
                                   [Country |-> "A", Year |-> 2019, Per_Capita_CO2_kg |-> 100]>>
    /\ view.comparison_data = <<[Country |-> "A", Latest_Year |-> 2020, Per_Capita_CO2 |-> 300]>>

Count(rows, r) == Cardinality({i \in 1..Len(rows) : rows[i] = r})

\* The rows of the result are the rows of the dataset for the country, each
\* as often as the dataset has it, and none when the dataset is absent.
ExactlyTheCountry ==
    \A r \in RowsOver(RequiredCols) :
        Count(view.country_data.rows, r) =
            IF cache.emissions_df.present /\ r.Country = view.selected_country
            THEN Count(cache.emissions_df.rows, r) ELSE 0

\* C10, as stated: get_country_data returns exactly the records of the
\* country, strictly ascending by Year, for every dataset.
C10_SeriesStrictlyAscending ==
    view.op = "get_country_data" =>
        LET rows == view.country_data.rows
        IN  /\ ExactlyTheCountry
            /\ \A i, j \in 1..Len(rows) : i < j => rows[i].Year < rows[j].Year

\* C10, amended: get_country_data returns exactly the records of the
\* country, ascending by Year; strictly ascending when the dataset has at
\* most one record for each (country, year); nothing for an unknown country
\* or an absent dataset.
C10_SeriesAscending ==
    view.op = "get_country_data" =>
        LET rows == view.country_data.rows
            all == cache.emissions_df.rows
            unique == \A i, j \in 1..Len(all) :
                          (i # j /\ all[i].Country = all[j].Country) => all[i].Year # all[j].Year
        IN  /\ ExactlyTheCountry
            /\ \A i, j \in 1..Len(rows) : i < j => rows[i].Year <= rows[j].Year
            /\ unique => \A i, j \in 1..Len(rows) : i < j => rows[i].Year < rows[j].Year
            /\ (~cache.emissions_df.present \/ view.selected_country = "Z") => rows = <<>>

C10_Witness ==
    /\ view.op = "get_country_data"
    /\ view.selected_country = "A"
    /\ cache.emissions_df.rows = <<[Country |-> "A", Year |-> 2020, Per_Capita_CO2_kg |-> 100],
                                   [Country |-> "A", Year |-> 2019, Per_Capita_CO2_kg |-> 300]>>
    /\ view.country_data.rows = <<[Country |-> "A", Year |-> 2019, Per_Capita_CO2_kg |-> 300],
                                  [Country |-> "A", Year |-> 2020, Per_Capita_CO2_kg |-> 100]>>

\* The steps of load_resources' body that belong to model resolution.
ModelSteps == {"joblib_load", "smoke_test", "rebuild_model", "model_resolved"}

\* Step e comes before step f in the trail t.
Before(t, e, f) == \E i, j \in 1..Len(t) : i < j /\ t[i] = e /\ t[j] = f

\* C11: the session goes Uninitialized -> DatasetLoaded -> ModelResolved ->
\* Ready in this order: no step of model resolution (load, smoke test,
\* rebuild) happens before the dataset was loaded from a readable file, and
\* wherever main is past line 168, has computed a metric or has called
\* predict, the dataset and a model other than None are both there.
C11_DatasetBeforeModel ==
    LET t == resolution.trail
    IN  /\ \A i \in 1..Len(t) :
              t[i] \in ModelSteps =>
                  /\ \E j \in 1..(i - 1) : t[j] = "dataset_loaded"
                  /\ csv.exists /\ csv.parses
                  /\ cache.emissions_df.present
        /\ (pc = "loaded" \/ view.computed # {} \/ view.predict_called
               \/ view.status \in {"running", "rendered", "crashed"}) =>
              /\ cache.filled
              /\ cache.emissions_df.present /\ cache.emissions_df = csv.frame
              /\ cache.model # None
              /\ Before(t, "read_csv", "dataset_loaded")
              /\ Before(t, "dataset_loaded", "joblib_load")
              /\ Before(t, "joblib_load", "model_resolved")

C11_Witness ==
    /\ view.op = "main" /\ view.status = "rendered"
    /\ view.predict_called /\ "peak" \in view.computed
    /\ cache.model = "rebuilt"
    /\ resolution.trail = <<"read_csv", "dataset_loaded", "joblib_load", "smoke_test",
                            "rebuild_model", "model_resolved">>

\* The records of the cached dataset for the country selected in the latest run.
CountryRecords == {r \in Range(cache.emissions_df.rows) : r.Country = view.selected_country}

\* C12: the historical peak of a run is the maximum Per_Capita_CO2_kg over the
\* selected country's records, no record of the country exceeds it, and its
\* year is the year of a record of the series that carries exactly that
\* value; a run computes the peak if and only if it got past the guard of
\* line 214 with a series that is not empty and frame columns that exist.
C12_PeakIsMaximumWithItsYear ==
    /\ "peak" \in view.computed =>
          /\ ~IsEmpty(view.country_data)
          /\ CountryRecords # {}
          /\ \A r \in CountryRecords : r.Per_Capita_CO2_kg <= view.peak.value
          /\ \E r \in CountryRecords :
                r.Per_Capita_CO2_kg = view.peak.value /\ r.Year = view.peak.year
          /\ \E i \in 1..Len(view.country_data.rows) :
                /\ view.country_data.rows[i].Per_Capita_CO2_kg = view.peak.value
                /\ view.country_data.rows[i].Year = view.peak.year
    /\ (view.op = "main" /\ "series" \in view.computed /\ IsEmpty(view.country_data)) =>
          "peak" \notin view.computed

\* The maximum is not in the latest year, and its value occurs once.
C12_Witness ==
    /\ view.op = "main" /\ view.status = "rendered" /\ "peak" \in view.computed
    /\ Len(view.country_data.rows) = 2
    /\ view.country_data.rows[1].Per_Capita_CO2_kg > view.country_data.rows[2].Per_Capita_CO2_kg
    /\ view.country_data.rows[1].Year < view.country_data.rows[2].Year
    /\ view.peak.year = view.country_data.rows[1].Year

\* C13: once the resources are resolved (the cache holds load_resources'
\* result), no step of any run changes the shared dataset, the country list
\* or the resolved model, and none writes the dataset file or a model file;
\* the part of a run after line 170, which computes the series, the metrics
\* and the comparison, leaves the whole cache entry and the resolution as they
\* were.
C13_ResourcesAreReadOnly ==
    [][/\ cache.filled =>
             /\ cache'.emissions_df = cache.emissions_df
             /\ cache'.country_list = cache.country_list
             /\ cache'.model = cache.model
             /\ cache'.filled
             /\ csv' = csv /\ pkl' = pkl /\ fixed_pkl' = fixed_pkl
       /\ pc = "loaded" => (cache' = cache /\ resolution' = resolution)]_vars

\* The second run sorted the country's two records by year for its series
\* and compared countries, and the cached frame still has the file's order.
C13_Witness ==
    /\ runs = 2 /\ view.op = "main" /\ view.status = "rendered"
    /\ "comparison" \in view.computed
    /\ cache.filled /\ cache.model # None /\ cache.emissions_df = csv.frame
    /\ Len(cache.emissions_df.rows) = 2
    /\ cache.emissions_df.rows[1].Year > cache.emissions_df.rows[2].Year
    /\ view.country_data.rows = <<cache.emissions_df.rows[2], cache.emissions_df.rows[1]>>

\* C14: a process that starts when an earlier process's rebuild_model has
\* written its model to disk resolves its model by loading a persisted
\* artifact, and does not call rebuild_model.  (fixed_pkl is "valid" only
\* when an earlier rebuild was dumped; the step is the first main_load of a
\* process that found the dataset.)
C14_RebuildHealsAcrossRestarts ==
    [][(fixed_pkl = "valid" /\ ~cache.filled /\ cache'.filled /\ resolution'.dataset_loaded) =>
          (calls'.rebuild_model = 0 /\ cache'.model = "loaded")]_vars

\* C15: in one process, once the cache holds a result without a model, every
\* later step leaves the cache entry and the resolution as they are, runs
\* neither read_csv nor joblib.load nor the smoke test nor rebuild_model
\* again, and every later run of main stops at line 168, also after the
\* files that were missing have been provided; only a restart empties the
\* cache.
C15_FailureIsCached ==
    [][(cache.filled /\ cache.model = None) =>
          \/ /\ process' = process
             /\ cache' = cache
             /\ resolution' = resolution
             /\ LoadCalls' = LoadCalls
             /\ runs' # runs => (view' = Stopped /\ pc' = "idle")
          \/ /\ process' = process + 1
             /\ cache' = EmptyCache]_vars

\* The first run failed for want of the dataset; the dataset and a working
\* artifact are there now, and the second run was stopped all the same.
C15_Witness ==
    /\ runs = 2 /\ view = Stopped
    /\ cache.filled /\ cache.model = None
    /\ resolution.trail = <<"read_csv">>
    /\ ~read_csv_fails(csv) /\ csv.frame.rows # <<>> /\ pkl = "valid"
    /\ calls.read_csv = 1 /\ calls.joblib_load = 0 /\ calls.rebuild_model = 0

====
